---- MODULE Spec2Model ----
(***************************************************************************)
(* Multi-echo DICOM concatenation (src/old/me_concat/                      *)
(* concatenate_multiecho.py): concatenate_scans runs concatenate_scan on   *)
(* every scan directory of a batch and then make_complete on each of them. *)
(*                                                                         *)
(* Conventions.  Echo numbers are the code's (0 .. echoes-1).  Python      *)
(* lists indexed by timepoint t and spatial position x are sequences, so   *)
(* the code's [t][x] is [t+1][x+1] here.  A text written to a file is a    *)
(* sequence of tokens: a path, a space or a newline.                       *)
(***************************************************************************)
EXTENDS Integers, Sequences, FiniteSets

\* ---------------------------------------------------------------- bounds
MaxFiles == 8          \* most DICOM files in the scan directory of a batch of one
BatchMaxFiles == 4     \* most DICOM files in each scan directory otherwise
MaxIdx == 6            \* most distinct slice indices in one scan directory
MaxDecl == 2           \* largest declared slice count / volume count
MaxNested == 1         \* most numbered ME directories below a scan directory

EchoCounts == {1, 2, 3}            \* echo counts the batch is run with
Batches == {<<1>>, <<1, 2>>}       \* scan_dirs lists handed to concatenate_scans

VARIABLES
    echoes,                \* parameter of concatenate_scans
    scan_dirs,             \* parameter of concatenate_scans
    pc,                    \* position of the orchestrator
    err,                   \* exception that ended the run ("" while none)
    scan_i,                \* position in scan_dirs of the scan in progress
    dir,                   \* contents of the scan directory in progress
    dicom_list,            \* concatenate_scan: glob result
    index_list,            \* concatenate_scan: pool.map result
    index_mapping,         \* concatenate_scan: slice index -> files
    nTotalSlices, nSpatialSlices, nSpaceTimeSlices, nTimePoints,
    slice_indices_by_echo, \* echo -> block of slice indices
    concat_file_list,      \* echo -> [t][x] -> path
    concat_files,          \* echo -> manifest text
    nEcho,                 \* loop counter of the write / start / wait loops
    infile,                \* echo -> text of the manifest file on disk
    dimon_proc,            \* scan -> echo -> the Dimon process started for it
    me_dir,                \* scan -> what exists in its medata directory
    checked,               \* make_complete: scans found below the scan dir
    incomplete,            \* make_complete: result of the dicom-set check
    missed,                \* make_complete: result of the concatenation check
    examined,              \* make_complete: nifti names the check looked for
    pool_results,          \* mp.Pool: task position -> result (0: not yet)
    pool_done,             \* mp.Pool: task positions in order of completion
    run,                   \* which run over the scan directory this is
    first_written,         \* echo -> manifest text the first run left
    params,                \* get_data: the selection arguments and password
    project,               \* XNAT: the project's subjects and their dates
    sub_list,              \* get_data: subject selection list
    series_keep_list,      \* get_data: series to include
    series_skip_list,      \* get_data: series to exclude
    attempts,              \* establish_xnat_interface: failures counted
    logins,                \* XNAT: logins asked of the server
    xnat,                  \* what establish_xnat_interface returned
    subjects,              \* pull_data: subject ids after the filters
    sub_i,                 \* pull_data: position in sorted(subjects)
    fetched,               \* pull_data: <<subject id, resource label>> fetched
    drained                \* echoes whose full stdout pipe communicate() read

vars == <<echoes, scan_dirs, pc, err, scan_i, dir, dicom_list, index_list,
          index_mapping, nTotalSlices, nSpatialSlices, nSpaceTimeSlices,
          nTimePoints, slice_indices_by_echo, concat_file_list, concat_files,
          nEcho, infile, dimon_proc, me_dir, checked, incomplete, missed,
          examined, pool_results, pool_done, run, first_written, params,
          project, sub_list, series_keep_list, series_skip_list, attempts,
          logins, xnat, subjects, sub_i, fetched, drained>>

\* state of the parts of the program other than concatenate_scans
pool == <<pool_results, pool_done>>
rerun == <<run, first_written>>
fetch == <<params, project, sub_list, series_keep_list, series_skip_list,
           attempts, logins, xnat, subjects, sub_i, fetched>>
pipes == <<drained>>
elsewhere == <<pool, rerun, fetch, pipes>>

locals == <<dir, dicom_list, index_list, index_mapping, nTotalSlices,
            nSpatialSlices, nSpaceTimeSlices, nTimePoints,
            slice_indices_by_echo, concat_file_list, concat_files, nEcho,
            infile>>

\* ------------------------------------------------------------ helpers
Range(s) == {s[p] : p \in DOMAIN s}

RECURSIVE SumTo(_, _)
SumTo(c, k) == IF k = 0 THEN 0 ELSE c[k] + SumTo(c, k - 1)

Min(S) == CHOOSE m \in S : \A o \in S : m <= o

\* sorted(dict.keys()): the elements of a set of integers, ascending
RECURSIVE sorted_keys(_)
sorted_keys(S) ==
    IF S = {} THEN <<>> ELSE <<Min(S)>> \o sorted_keys(S \ {Min(S)})

\* a path in scan directory d whose file name carries the number n
Path(d, n) == [scan |-> d, num |-> n]
NoPath == [scan |-> 0, num |-> 0]

\* a key that puts the highest file number first
fileNumberDescending(f) == 0 - f.num

\* fileNumbering regex, group(1), int()
fileNumberExtractor(f) == f.num

\* sorted(list, key=fileNumberExtractor): stable, ascending
RECURSIVE InsertByKey(_, _)
InsertByKey(s, f) ==
    IF s = <<>> THEN <<f>>
    ELSE IF fileNumberExtractor(s[Len(s)]) <= fileNumberExtractor(f)
         THEN Append(s, f)
         ELSE Append(InsertByKey(SubSeq(s, 1, Len(s) - 1), f), s[Len(s)])

RECURSIVE SortKeyed(_, _)
SortKeyed(s, k) ==
    IF k = 0 THEN <<>> ELSE InsertByKey(SortKeyed(s, k - 1), s[k])

sorted_by_number(s) == SortKeyed(s, Len(s))

\* ------------------------------------------------- text of a manifest
Word(p) == [ch |-> "w", p |-> p]
Space == [ch |-> " ", p |-> NoPath]
Newline == [ch |-> "\n", p |-> NoPath]

\* sep.join(parts), parts a sequence of texts
RECURSIVE JoinTo(_, _, _)
JoinTo(sep, parts, k) ==
    IF k = 0 THEN <<>>
    ELSE IF k = 1 THEN parts[1]
    ELSE JoinTo(sep, parts, k - 1) \o <<sep>> \o parts[k]

join(sep, parts) == JoinTo(sep, parts, Len(parts))

\* ------------------------------------------- contents of a directory
\* Slice indices 1..k; counts[i] files carry index i.  Files are numbered in
\* acquisition order: one file of every index still being acquired, repeated.
Acquired(counts) ==
    {<<r, i>> \in (1 .. MaxFiles) \X DOMAIN counts : r <= counts[i]}

AcqPos(counts, q) ==
    Cardinality({o \in Acquired(counts) :
                    o[1] < q[1] \/ (o[1] = q[1] /\ o[2] <= q[2])})

HeaderIndices(counts) ==
    [n \in 1 .. Cardinality(Acquired(counts)) |->
        (CHOOSE q \in Acquired(counts) : AcqPos(counts, q) = n)[2]]

IndexCounts(most) ==
    UNION {{c \in [1 .. k -> 1 .. (most - k + 1)] : SumTo(c, k) <= most}
           : k \in 1 .. (IF most < MaxIdx THEN most ELSE MaxIdx)}

\* orders in which glob lists n files: ascending and descending file number
Listings(n) == {[p \in 1 .. n |-> p], [p \in 1 .. n |-> n + 1 - p]}

\* a directory of at most `most` files: the slice index in the header of
\* every file, the order glob lists the files in, and the slice and volume
\* counts its headers declare
DirContents(most) ==
    UNION {{[hdr |-> HeaderIndices(c), listing |-> l,
             slice_num |-> s, vol_num |-> v]
            : l \in Listings(SumTo(c, Len(c))),
              s \in 1 .. MaxDecl, v \in 1 .. MaxDecl}
           : c \in IndexCounts(most)}

\* directory c, as it is or with one file, the first or the last, whose
\* header cannot be used: no slice index field in it (0), or not a DICOM
\* file at all (-1)
WithDamage(c) ==
    {c} \cup {[c EXCEPT !.hdr[n] = v] : n \in {1, Len(c.hdr)}, v \in {0, -1}}

\* most files of a scan directory of the batch: fewer in a batch of several
\* scans and in a run with a single echo
MostFiles(batch, e) ==
    IF Len(batch) = 1 /\ e > 1 THEN MaxFiles ELSE BatchMaxFiles

NoDir == [hdr |-> <<>>, listing |-> <<>>, slice_num |-> 0, vol_num |-> 0]

\* a numbered multi-echo directory below a scan directory, as
\* find_incomplete_dicom_sets sees it: file count and declared counts
NestedScans ==
    [files : 1 .. (MaxDecl + 1), slice_num : 1 .. MaxDecl,
     vol_num : 1 .. MaxDecl]

RECURSIVE SeqsUpTo(_, _)
SeqsUpTo(S, n) ==
    IF n = 0 THEN {<<>>}
    ELSE SeqsUpTo(S, n - 1) \cup
         {Append(s, x) : s \in {t \in SeqsUpTo(S, n - 1) : Len(t) = n - 1},
                         x \in S}

EchoIds == 0 .. (echoes - 1)
\* a medata directory: the manifests, temp directories and niftis in it by
\* echo, and the status marker files in it
NoMeDir ==
    [exists |-> FALSE, infile_lists |-> {}, temp |-> {}, nii |-> {},
     markers |-> {}]
\* no process started yet: dimon_proc[nEcho] is None
NoProc == [state |-> "none", cwd |-> -1]

\* no pool has been made
NoPool == pool_results = <<>> /\ pool_done = <<>>
\* the scan directories are gone over once
NoRerun == run = 1 /\ first_written = <<>>
\* the stdout pipes of the processes are not followed
NoPipes == drained = {}
\* nothing is fetched from XNAT
NoFetch ==
    /\ params = <<>>
    /\ project = {}
    /\ sub_list = <<>>
    /\ series_keep_list = <<>>
    /\ series_skip_list = <<>>
    /\ attempts = 0
    /\ logins = 0
    /\ xnat = ""
    /\ subjects = <<>>
    /\ sub_i = 0
    /\ fetched = {}

\* ---------------------------------------------------------------- Init
Init ==
    /\ echoes \in EchoCounts
    /\ scan_dirs \in Batches
    /\ pc = "scans"
    /\ err = ""
    /\ scan_i = 1
    /\ dir = NoDir
    /\ dicom_list = <<>>
    /\ index_list = <<>>
    /\ index_mapping = <<>>
    /\ nTotalSlices = 0
    /\ nSpatialSlices = 0
    /\ nSpaceTimeSlices = 0
    /\ nTimePoints = 0
    /\ slice_indices_by_echo = <<>>
    /\ concat_file_list = <<>>
    /\ concat_files = <<>>
    /\ nEcho = 0
    /\ infile = [e \in EchoIds |-> <<>>]
    /\ dimon_proc = [d \in Range(scan_dirs) |-> [e \in EchoIds |-> NoProc]]
    /\ me_dir = [d \in Range(scan_dirs) |-> NoMeDir]
    /\ checked = <<>>
    /\ incomplete = <<>>
    /\ missed = <<>>
    /\ examined = {}
    /\ NoPool
    /\ NoRerun
    /\ NoFetch
    /\ NoPipes

\* concatenate_scan returns: its locals are gone, and the texts of the
\* manifests are followed for the scan in progress only (me_dir keeps which
\* files exist); the processes it started are the system's, not its locals
ReturnFromScan ==
    /\ dir' = NoDir
    /\ dicom_list' = <<>>
    /\ index_list' = <<>>
    /\ index_mapping' = <<>>
    /\ nTotalSlices' = 0
    /\ nSpatialSlices' = 0
    /\ nSpaceTimeSlices' = 0
    /\ nTimePoints' = 0
    /\ slice_indices_by_echo' = <<>>
    /\ concat_file_list' = <<>>
    /\ concat_files' = <<>>
    /\ nEcho' = 0
    /\ infile' = [e \in EchoIds |-> <<>>]

scan_dir == scan_dirs[scan_i]

\* an uncaught exception leaves concatenate_scans and ends the run
Raise(e) ==
    /\ pc' = "raised"
    /\ err' = e

\* ------------------------------------------------- concatenate_scans
\* for scan_dir in scan_dirs: concatenate_scan(scan_dir, ...)
EnterScan ==
    /\ pc = "scans"
    /\ scan_i <= Len(scan_dirs)
    /\ pc' = "mkdir"
    /\ UNCHANGED elsewhere
    /\ UNCHANGED <<echoes, scan_dirs, err, scan_i, locals, dimon_proc, me_dir,
                   checked,
                   incomplete, missed, examined>>

\* the first loop is over: "Finished concatenation!", second loop begins
FinishedConcatenation ==
    /\ pc = "scans"
    /\ scan_i > Len(scan_dirs)
    /\ pc' = "complete"
    /\ scan_i' = 1
    /\ UNCHANGED elsewhere
    /\ UNCHANGED <<echoes, scan_dirs, err, locals, dimon_proc, me_dir,
                   checked,
                   incomplete, missed, examined>>

\* -------------------------------------------------- concatenate_scan
\* os.mkdir(me_dir), FileExistsError swallowed
MkdirMeDir ==
    /\ pc = "mkdir"
    /\ me_dir' = [me_dir EXCEPT ![scan_dir].exists = TRUE]
    /\ pc' = "extract"
    /\ UNCHANGED elsewhere
    /\ UNCHANGED <<echoes, scan_dirs, err, scan_i, locals, dimon_proc,
                   checked,
                   incomplete, missed, examined>>

\* get_slice_index: the slice index in the header of file f
get_slice_index(contents, f) == contents.hdr[f.num]

\* a header read that puts up with anything
get_slice_index_tolerant(contents, f) == ""

\* what get_slice_index raises on file f: dcmread raises on a file that is
\* not DICOM, and .get(tag) is None, without .value, when the field is absent
get_slice_index_raises(contents, f) ==
    IF contents.hdr[f.num] = 0 THEN "AttributeError"
    ELSE IF contents.hdr[f.num] = -1 THEN "InvalidDicomError"
    ELSE ""

\* the exception pool.map raises again in the caller: that of the first
\* task that raised one ("" when none did)
raised_by_map(contents, listed) ==
    IF \E p \in DOMAIN listed : get_slice_index_raises(contents, listed[p]) # ""
    THEN get_slice_index_raises(contents,
             listed[CHOOSE p \in DOMAIN listed :
                        /\ get_slice_index_raises(contents, listed[p]) # ""
                        /\ \A q \in 1 .. (p - 1) :
                               get_slice_index_raises(contents, listed[q]) = ""])
    ELSE ""

\* glob of the scan directory, then pool.map(get_slice_index, dicom_list),
\* whose results come in the order of dicom_list; an exception of a worker
\* leaves index_list unassigned
ExtractSliceIndices ==
    /\ pc = "extract"
    /\ \E c \in DirContents(MostFiles(scan_dirs, echoes)) :
       \E contents \in WithDamage(c) :
        LET listed == [p \in DOMAIN contents.listing |->
                          Path(scan_dir, contents.listing[p])]
        IN /\ dir' = contents
           /\ dicom_list' = listed
           /\ IF raised_by_map(contents, listed) # ""
              THEN /\ Raise(raised_by_map(contents, listed))
                   /\ index_list' = index_list
              ELSE /\ index_list' = [p \in DOMAIN listed |->
                                        get_slice_index(contents, listed[p])]
                   /\ pc' = "check"
                   /\ err' = err
    /\ UNCHANGED elsewhere
    /\ UNCHANGED <<echoes, scan_dirs, scan_i, index_mapping,
                   nTotalSlices, nSpatialSlices, nSpaceTimeSlices,
                   nTimePoints, slice_indices_by_echo, concat_file_list,
                   concat_files, nEcho, infile, dimon_proc, me_dir, checked,
                   incomplete, missed, examined>>

\* the check written against three echoes whatever echoes is
NotDivisibleByThree(n, e) == n % 3 # 0

\* if len(index_list) % echoes != 0
NotDivisible(n, e) == n % e # 0

\* "Make sure # of slices is divisible by 3": raise IndexError otherwise
CheckDivisible ==
    /\ pc = "check"
    /\ IF NotDivisible(Len(index_list), echoes)
       THEN Raise("IndexError")
       ELSE pc' = "map" /\ err' = err
    /\ UNCHANGED elsewhere
    /\ UNCHANGED <<echoes, scan_dirs, scan_i, locals, dimon_proc, me_dir,
                   checked,
                   incomplete, missed, examined>>

\* the files of dicom_list whose index is i, in the order of dicom_list
RECURSIVE FilesOfIndex(_, _, _, _)
FilesOfIndex(files, indices, i, k) ==
    IF k = 0 THEN <<>>
    ELSE IF indices[k] = i
         THEN Append(FilesOfIndex(files, indices, i, k - 1), files[k])
         ELSE FilesOfIndex(files, indices, i, k - 1)

\* the lists left in the order of dicom_list
sort_files_omitted(s) == s

\* sorted(index_mapping[index], key=fileNumberExtractor)
sort_files(s) == sorted_by_number(s)

\* the dict built from zip(dicom_list, index_list), every list then sorted
\* by file number
make_index_mapping(files, indices) ==
    [i \in Range(indices) |->
        sort_files(FilesOfIndex(files, indices, i, Len(files)))]

BuildIndexMapping ==
    /\ pc = "map"
    /\ index_mapping' = make_index_mapping(dicom_list, index_list)
    /\ pc' = "geometry"
    /\ UNCHANGED elsewhere
    /\ UNCHANGED <<echoes, scan_dirs, err, scan_i, dir, dicom_list,
                   index_list, nTotalSlices, nSpatialSlices,
                   nSpaceTimeSlices, nTimePoints, slice_indices_by_echo,
                   concat_file_list, concat_files, nEcho, infile, dimon_proc,
                   me_dir, checked, incomplete, missed, examined>>

\* s[a:b] of a Python list (bounds clamp to the list)
py_slice(s, a, b) ==
    SubSeq(s, a + 1, IF b <= Len(s) THEN b ELSE Len(s))

\* nSpatialSlices = len(index_mapping) // echoes
spatial_slices(nIndices, e) == nIndices \div e

\* the division without the echo count
time_points_per_slice(nTotal, e, nSpatial) == nTotal \div nSpatial

\* nTimePoints = nTotalSlices // (echoes * nSpatialSlices)
time_points(nTotal, e, nSpatial) == nTotal \div (e * nSpatial)

\* [slice_indices[k:k + n] for k in range(0, n * echoes, n)]
blocks_by_echo(slice_indices, n, e) ==
    [j \in 0 .. (e - 1) |-> py_slice(slice_indices, j * n, j * n + n)]

\* the counts, then the sorted indices cut into one block per echo;
\* the division by echoes * nSpatialSlices raises ZeroDivisionError
ResolveGeometry ==
    /\ pc = "geometry"
    /\ LET nSpatial == spatial_slices(Cardinality(DOMAIN index_mapping), echoes)
       IN /\ nTotalSlices' = Len(index_list)
          /\ nSpatialSlices' = nSpatial
          /\ nSpaceTimeSlices' = Len(index_list) \div echoes
          /\ IF echoes * nSpatial = 0
             THEN /\ Raise("ZeroDivisionError")
                  /\ UNCHANGED <<nTimePoints, slice_indices_by_echo>>
             ELSE /\ nTimePoints' = time_points(Len(index_list), echoes, nSpatial)
                  /\ slice_indices_by_echo' =
                        blocks_by_echo(sorted_keys(DOMAIN index_mapping),
                                       nSpatial, echoes)
                  /\ pc' = "order"
                  /\ err' = err
    /\ UNCHANGED elsewhere
    /\ UNCHANGED <<echoes, scan_dirs, scan_i, dir, dicom_list, index_list,
                   index_mapping, concat_file_list, concat_files, nEcho,
                   infile, dimon_proc, me_dir, checked, incomplete, missed, examined>>

\* index_mapping[index][t] exists for every lookup of the three loops
lookups_in_range(mapping, blocks, nT) ==
    \A e \in DOMAIN blocks : \A x \in DOMAIN blocks[e] :
        nT <= Len(mapping[blocks[e][x]])

\* every echo reading the block of echo 0
file_ordering_first_block(mapping, blocks, nT, nS) ==
    [e \in DOMAIN blocks |->
        [t \in 1 .. nT |-> [x \in 1 .. nS |-> mapping[blocks[0][x]][t]]]]

\* concat_file_list[nEcho][t][x] = index_mapping[slice_indices_by_echo[nEcho][x]][t]
file_ordering(mapping, blocks, nT, nS) ==
    [e \in DOMAIN blocks |->
        [t \in 1 .. nT |-> [x \in 1 .. nS |-> mapping[blocks[e][x]][t]]]]

\* one line per spatial position, the timepoints along the line
manifest_text_by_position(rows, nT, nS) ==
    join(Newline,
         [x \in 1 .. nS |-> join(Space, [t \in 1 .. nT |-> <<Word(rows[t][x])>>])])

\* '\n'.join([' '.join([rows[t][x] for x ...]) for t ...])
manifest_text(rows, nT, nS) ==
    join(Newline,
         [t \in 1 .. nT |-> join(Space, [x \in 1 .. nS |-> <<Word(rows[t][x])>>])])

\* the three nested loops; a lookup past the end of a list raises IndexError
BuildFileOrdering ==
    /\ pc = "order"
    /\ IF lookups_in_range(index_mapping, slice_indices_by_echo, nTimePoints)
       THEN LET ordering == file_ordering(index_mapping, slice_indices_by_echo,
                                          nTimePoints, nSpatialSlices)
            IN /\ concat_file_list' = ordering
               /\ concat_files' =
                     [e \in EchoIds |->
                         manifest_text(ordering[e], nTimePoints, nSpatialSlices)]
               /\ pc' = "write"
               /\ err' = err
       ELSE /\ Raise("IndexError")
            /\ UNCHANGED <<concat_file_list, concat_files>>
    /\ UNCHANGED elsewhere
    /\ UNCHANGED <<echoes, scan_dirs, scan_i, dir, dicom_list, index_list,
                   index_mapping, nTotalSlices, nSpatialSlices,
                   nSpaceTimeSlices, nTimePoints, slice_indices_by_echo, nEcho,
                   infile, dimon_proc, me_dir, checked, incomplete, missed, examined>>

\* a loop that stops one echo short
more_echoes_but_last(n, e) == n + 2 < e

\* for nEcho in range(echoes): the loop goes on after echo n
more_echoes(n, e) == n + 1 < e

\* open(path, 'a'): the text is added to what the file holds
append_to_file(old, text) == old \o text

\* open(path, 'w'): the file is truncated, then holds the text written
write_file(old, text) == text

\* for nEcho in range(echoes): open(infile_lists[nEcho], 'w').write(...)
WriteInfileList ==
    /\ pc = "write"
    /\ infile' = [infile EXCEPT
                     ![nEcho] = write_file(infile[nEcho], concat_files[nEcho])]
    /\ me_dir' = [me_dir EXCEPT ![scan_dir].infile_lists = @ \cup {nEcho}]
    /\ IF more_echoes(nEcho, echoes)
       THEN nEcho' = nEcho + 1 /\ pc' = pc
       ELSE nEcho' = 0 /\ pc' = "start"
    /\ UNCHANGED elsewhere
    /\ UNCHANGED <<echoes, scan_dirs, err, scan_i, dir, dicom_list,
                   index_list, index_mapping, nTotalSlices, nSpatialSlices,
                   nSpaceTimeSlices, nTimePoints, slice_indices_by_echo,
                   concat_file_list, concat_files, dimon_proc, checked,
                   incomplete, missed, examined>>

\* 'run{scan_name:04d}.e{echo:02d}': the nifti Dimon is told to write
output_filename(scan_name, echo) == [run |-> scan_name, e |-> echo]

\* a template without the {echo} field: one temp directory for every echo
temp_dir_shared(echo) == 0

\* temp_dir_template.format(echo=nEcho): the directory temp_<echo> of me_dir
temp_dir(echo) == echo

\* for nEcho in range(echoes): os.mkdir(temp_dir); subprocess.Popen(Dimon ...,
\* cwd=temp_dir)
StartDimon ==
    /\ pc = "start"
    /\ me_dir' = [me_dir EXCEPT ![scan_dir].temp = @ \cup {temp_dir(nEcho)}]
    /\ dimon_proc' = [dimon_proc EXCEPT ![scan_dir][nEcho] =
                          [state |-> "running", cwd |-> temp_dir(nEcho)]]
    /\ IF more_echoes(nEcho, echoes)
       THEN nEcho' = nEcho + 1 /\ pc' = pc
       ELSE nEcho' = 0 /\ pc' = "wait"
    /\ UNCHANGED elsewhere
    /\ UNCHANGED <<echoes, scan_dirs, err, scan_i, dir, dicom_list,
                   index_list, index_mapping, nTotalSlices, nSpatialSlices,
                   nSpaceTimeSlices, nTimePoints, slice_indices_by_echo,
                   concat_file_list, concat_files, infile, checked,
                   incomplete, missed, examined>>

\* a Dimon process ends: exit code 0 with its nifti written to me_dir, or a
\* non-zero exit code and no nifti
DimonExit ==
    \E d \in Range(scan_dirs), e \in EchoIds, ok \in BOOLEAN :
        /\ dimon_proc[d][e].state = "running"
        /\ dimon_proc' = [dimon_proc EXCEPT ![d][e].state =
                              IF ok THEN "exit0" ELSE "exit1"]
        /\ me_dir' = [me_dir EXCEPT ![d].nii = IF ok THEN @ \cup {e} ELSE @]
        /\ UNCHANGED elsewhere
        /\ UNCHANGED <<echoes, scan_dirs, pc, err, scan_i, locals, checked,
                       incomplete, missed, examined>>

\* a wait that does not block (poll() in place of communicate())
communicate_returns_at_once(p) == TRUE

\* communicate() returns once the process has ended, whatever its exit code
communicate_returns(p) == p.state \in {"exit0", "exit1"}

\* a wait loop that checks the exit code: a non-zero code raises
\* CalledProcessError out of the loop
WaitDimonChecked ==
    /\ pc = "wait"
    /\ communicate_returns(dimon_proc[scan_dir][nEcho])
    /\ IF dimon_proc[scan_dir][nEcho].state = "exit1"
       THEN /\ Raise("CalledProcessError")
            /\ UNCHANGED <<scan_i, locals, me_dir>>
       ELSE /\ me_dir' = [me_dir EXCEPT
                              ![scan_dir].temp = @ \ {temp_dir(nEcho)}]
            /\ err' = err
            /\ IF more_echoes(nEcho, echoes)
               THEN /\ nEcho' = nEcho + 1
                    /\ UNCHANGED <<pc, scan_i, dir, dicom_list, index_list,
                                   index_mapping, nTotalSlices, nSpatialSlices,
                                   nSpaceTimeSlices, nTimePoints,
                                   slice_indices_by_echo, concat_file_list,
                                   concat_files, infile>>
               ELSE /\ pc' = "scans"
                    /\ scan_i' = scan_i + 1
                    /\ ReturnFromScan
    /\ UNCHANGED elsewhere
    /\ UNCHANGED <<echoes, scan_dirs, dimon_proc, checked, incomplete,
                   missed, examined>>

\* for nEcho in range(echoes): dimon_proc[nEcho].communicate(), then
\* shutil.rmtree(temp_dir); after the last echo the call returns
WaitDimon ==
    /\ pc = "wait"
    /\ communicate_returns(dimon_proc[scan_dir][nEcho])
    /\ me_dir' = [me_dir EXCEPT ![scan_dir].temp = @ \ {temp_dir(nEcho)}]
    /\ IF more_echoes(nEcho, echoes)
       THEN /\ nEcho' = nEcho + 1
            /\ UNCHANGED <<pc, scan_i, dir, dicom_list, index_list,
                           index_mapping, nTotalSlices, nSpatialSlices,
                           nSpaceTimeSlices, nTimePoints,
                           slice_indices_by_echo, concat_file_list,
                           concat_files, infile>>
       ELSE /\ pc' = "scans"
            /\ scan_i' = scan_i + 1
            /\ ReturnFromScan
    /\ UNCHANGED elsewhere
    /\ UNCHANGED <<echoes, scan_dirs, err, dimon_proc, checked, incomplete,
                   missed, examined>>

\* ----------------------------------------------------- make_complete
\* vol_num * slice_num != len(files)
counts_differ(s) == s.vol_num * s.slice_num # s.files

\* find_incomplete_dicom_sets: on the first scan whose counts differ,
\* "yield scan" reads a name that is bound nowhere: NameError, and nothing
\* has been yielded
find_incomplete_dicom_sets(scans) ==
    IF \E p \in DOMAIN scans : counts_differ(scans[p])
    THEN [raised |-> "NameError", yielded |-> <<>>]
    ELSE [raised |-> "", yielded |-> <<>>]

\* find_incomplete_concatenations: the dicom-set check again, then a loop
\* over find_scans whose body reads the unbound name "scan" while it formats
\* the nifti name, before op.exists is reached: no name is looked for
find_incomplete_concatenations(scans) ==
    IF find_incomplete_dicom_sets(scans).raised # ""
    THEN [raised |-> find_incomplete_dicom_sets(scans).raised,
          yielded |-> <<>>, examined |-> {}]
    ELSE IF scans # <<>>
    THEN [raised |-> "NameError", yielded |-> <<>>, examined |-> {}]
    ELSE [raised |-> "", yielded |-> <<>>, examined |-> {}]

\* make_complete with the "one last go" of its commented-out lines 243-247
\* (unused/utils.py 159-163): a scan whose niftis are not all there is run
\* through concatenate_scan again
MakeCompleteRetrying ==
    /\ pc = "complete"
    /\ scan_i <= Len(scan_dirs)
    /\ IF me_dir[scan_dir].nii # EchoIds
       THEN /\ pc' = "mkdir"
            /\ UNCHANGED <<err, scan_i, checked, incomplete, missed, examined>>
       ELSE /\ \E found \in SeqsUpTo(NestedScans, MaxNested) :
                LET first == find_incomplete_dicom_sets(found)
                    second == find_incomplete_concatenations(found)
                IN /\ checked' = found
                   /\ incomplete' = first.yielded
                   /\ missed' = second.yielded
                   /\ examined' = second.examined
                   /\ IF first.raised # "" THEN Raise(first.raised)
                      ELSE IF second.raised # "" THEN Raise(second.raised)
                      ELSE pc' = pc /\ err' = err
            /\ scan_i' = scan_i + 1
    /\ UNCHANGED elsewhere
    /\ UNCHANGED <<echoes, scan_dirs, locals, dimon_proc, me_dir>>

\* make_complete(scan_dir): the scans are the numbered multi-echo
\* directories found below scan_dir (get_scan_dirs(exam_dir=scan_dir))
MakeComplete ==
    /\ pc = "complete"
    /\ scan_i <= Len(scan_dirs)
    /\ \E found \in SeqsUpTo(NestedScans, MaxNested) :
        LET first == find_incomplete_dicom_sets(found)
            second == find_incomplete_concatenations(found)
        IN /\ checked' = found
           /\ incomplete' = first.yielded
           /\ missed' = second.yielded
           /\ examined' = second.examined
           /\ IF first.raised # "" THEN Raise(first.raised)
              ELSE IF second.raised # "" THEN Raise(second.raised)
              ELSE pc' = pc /\ err' = err
    /\ scan_i' = scan_i + 1
    /\ UNCHANGED elsewhere
    /\ UNCHANGED <<echoes, scan_dirs, locals, dimon_proc, me_dir>>

\* "...done!"
Finished ==
    /\ pc = "complete"
    /\ scan_i > Len(scan_dirs)
    /\ pc' = "done"
    /\ UNCHANGED elsewhere
    /\ UNCHANGED <<echoes, scan_dirs, err, scan_i, locals, dimon_proc, me_dir,
                   checked,
                   incomplete, missed, examined>>

Next ==
    \/ EnterScan
    \/ FinishedConcatenation
    \/ MkdirMeDir
    \/ ExtractSliceIndices
    \/ CheckDivisible
    \/ BuildIndexMapping
    \/ ResolveGeometry
    \/ BuildFileOrdering
    \/ WriteInfileList
    \/ StartDimon
    \/ DimonExit
    \/ WaitDimon
    \/ MakeComplete
    \/ Finished

Spec == Init /\ [][Next]_vars

\* ------------------------------------------ groups of the variables
derived == <<index_mapping, nTotalSlices, nSpatialSlices, nSpaceTimeSlices,
             nTimePoints, slice_indices_by_echo, concat_file_list,
             concat_files, nEcho>>
disk == <<infile, dimon_proc, me_dir>>
report == <<checked, incomplete, missed, examined>>

NothingDerived ==
    /\ index_mapping = <<>>
    /\ nTotalSlices = 0
    /\ nSpatialSlices = 0
    /\ nSpaceTimeSlices = 0
    /\ nTimePoints = 0
    /\ slice_indices_by_echo = <<>>
    /\ concat_file_list = <<>>
    /\ concat_files = <<>>
    /\ nEcho = 0
NothingOnDisk ==
    /\ infile = [e \in EchoIds |-> <<>>]
    /\ dimon_proc = [d \in Range(scan_dirs) |-> [e \in EchoIds |-> NoProc]]
    /\ me_dir = [d \in Range(scan_dirs) |-> NoMeDir]
NothingReported ==
    /\ checked = <<>>
    /\ incomplete = <<>>
    /\ missed = <<>>
    /\ examined = {}

\* =========================================== the pool of concatenate_scan
\* with mp.Pool(16) as pool: index_list = pool.map(get_slice_index,
\* dicom_list), followed task by task: the workers return the results of the
\* tasks in any order, and map hands them back once all are there.

\* the scan directory has been globbed and the pool is made
PoolInit ==
    /\ echoes \in EchoCounts
    /\ scan_dirs = <<1>>
    /\ pc = "pool"
    /\ err = ""
    /\ scan_i = 1
    /\ \E c \in DirContents(BatchMaxFiles) : dir \in WithDamage(c)
    /\ dicom_list = [p \in DOMAIN dir.listing |-> Path(1, dir.listing[p])]
    /\ index_list = <<>>
    /\ NothingDerived
    /\ NothingOnDisk
    /\ NothingReported
    /\ pool_results = [k \in DOMAIN dir.listing |-> 0]
    /\ pool_done = <<>>
    /\ NoRerun
    /\ NoFetch
    /\ NoPipes

\* a worker returns the result of one of the tasks still out (for a header
\* it could not use, the exception in place of a slice index)
PoolWorkerReturns ==
    /\ pc = "pool"
    /\ \E k \in DOMAIN dicom_list \ Range(pool_done) :
           /\ pool_results' = [pool_results EXCEPT
                                  ![k] = get_slice_index(dir, dicom_list[k])]
           /\ pool_done' = Append(pool_done, k)
    /\ UNCHANGED <<echoes, scan_dirs, pc, err, scan_i, dir, dicom_list,
                   index_list, derived, disk, report, rerun, fetch, pipes>>

\* results handed back in the order the workers returned them
\* (imap_unordered in place of map)
results_as_completed(results, done) ==
    [k \in DOMAIN done |-> results[done[k]]]

\* pool.map: the list of results, in the order of the tasks
results_of_map(results, done) == results

\* every task is back: pool.map returns and the pool is closed
PoolMapReturns ==
    /\ pc = "pool"
    /\ Len(pool_done) = Len(dicom_list)
    /\ IF raised_by_map(dir, dicom_list) # ""
       THEN /\ Raise(raised_by_map(dir, dicom_list))
            /\ index_list' = index_list
       ELSE /\ index_list' = results_of_map(pool_results, pool_done)
            /\ pc' = "pooled"
            /\ err' = err
    /\ UNCHANGED <<echoes, scan_dirs, scan_i, dir, dicom_list, derived,
                   disk, report, pool, rerun, fetch, pipes>>

PoolNext ==
    \/ PoolWorkerReturns
    \/ PoolMapReturns

PoolSpec == PoolInit /\ [][PoolNext]_vars

\* ===================================== a scan directory gone over twice
\* concatenate_scan called again on a scan directory whose DICOM files have
\* not changed, up to the manifests (lines 362-434).  The medata directory
\* may be there beforehand, with the manifests and niftis of an earlier day.

StaleText == <<Word(NoPath), Newline>>
LeftoverMeDir ==
    [exists |-> TRUE, infile_lists |-> EchoIds, temp |-> {}, nii |-> EchoIds,
     markers |-> {}]

RerunInit ==
    /\ echoes \in EchoCounts
    /\ scan_dirs = <<1>>
    /\ pc = "mkdir"
    /\ err = ""
    /\ scan_i = 1
    /\ dir \in DirContents(BatchMaxFiles)
    /\ dicom_list = <<>>
    /\ index_list = <<>>
    /\ NothingDerived
    /\ \/ NothingOnDisk
       \/ /\ infile = [e \in EchoIds |-> StaleText]
          /\ dimon_proc = [d \in Range(scan_dirs) |-> [e \in EchoIds |-> NoProc]]
          /\ me_dir = [d \in Range(scan_dirs) |-> LeftoverMeDir]
    /\ NothingReported
    /\ NoPool
    /\ run = 1
    /\ first_written = <<>>
    /\ NoFetch
    /\ NoPipes

\* glob and pool.map over the directory as it was given
RerunExtract ==
    /\ pc = "extract"
    /\ dicom_list' = [p \in DOMAIN dir.listing |->
                         Path(scan_dir, dir.listing[p])]
    /\ index_list' = [p \in DOMAIN dir.listing |->
                         get_slice_index(dir, Path(scan_dir, dir.listing[p]))]
    /\ pc' = "check"
    /\ UNCHANGED <<echoes, scan_dirs, err, scan_i, dir, derived, disk, report,
                   pool, rerun, fetch, pipes>>

\* the manifests of the first run are written: concatenate_scan is called
\* on the same directory once more
RunAgain ==
    /\ pc = "start"
    /\ run = 1
    /\ run' = 2
    /\ first_written' = infile
    /\ pc' = "mkdir"
    /\ dicom_list' = <<>>
    /\ index_list' = <<>>
    /\ index_mapping' = <<>>
    /\ nTotalSlices' = 0
    /\ nSpatialSlices' = 0
    /\ nSpaceTimeSlices' = 0
    /\ nTimePoints' = 0
    /\ slice_indices_by_echo' = <<>>
    /\ concat_file_list' = <<>>
    /\ concat_files' = <<>>
    /\ nEcho' = 0
    /\ UNCHANGED <<echoes, scan_dirs, err, scan_i, dir, disk, report, pool,
                   fetch, pipes>>

RerunNext ==
    \/ MkdirMeDir
    \/ RerunExtract
    \/ CheckDivisible
    \/ BuildIndexMapping
    \/ ResolveGeometry
    \/ BuildFileOrdering
    \/ WriteInfileList
    \/ RunAgain

RerunSpec == RerunInit /\ [][RerunNext]_vars

\* ============================================ the pipes of the dispatch
\* concatenate_scan with the stdout pipes of its Dimon processes followed
\* (Popen(..., stdout=subprocess.PIPE), lines 445-485): a process that has
\* written more than its pipe holds blocks until the pipe is read, and the
\* pipe of a process is read by the communicate() call of its echo only.

\* the scan directory holds one volume of one slice per echo at most: what
\* is started and awaited depends on echoes, not on the number of files
DispatchInit ==
    /\ echoes \in EchoCounts
    /\ scan_dirs = <<1>>
    /\ pc = "mkdir"
    /\ err = ""
    /\ scan_i = 1
    /\ dir \in {c \in DirContents(BatchMaxFiles) : Len(c.listing) <= echoes}
    /\ dicom_list = <<>>
    /\ index_list = <<>>
    /\ NothingDerived
    /\ NothingOnDisk
    /\ NothingReported
    /\ NoPool
    /\ NoRerun
    /\ NoFetch
    /\ drained = {}

\* a running process fills its stdout pipe and blocks in write()
DimonBlocks ==
    \E d \in Range(scan_dirs), e \in EchoIds :
        /\ dimon_proc[d][e].state = "running"
        /\ dimon_proc' = [dimon_proc EXCEPT ![d][e].state = "blocked"]
        /\ UNCHANGED <<echoes, scan_dirs, pc, err, scan_i, locals, me_dir,
                       report, pool, rerun, fetch, pipes>>

\* wait() in place of communicate(): the pipe is left as it is
pipe_left_by_wait(state) == state

\* communicate() reads the pipe of its process until end of file: a writer
\* blocked on it goes on
pipe_read_by_communicate(state) ==
    IF state = "blocked" THEN "running" ELSE state

\* dimon_proc[nEcho].communicate(), while the process has not ended
CommunicateReads ==
    /\ pc = "wait"
    /\ dimon_proc[scan_dir][nEcho].state = "blocked"
    /\ dimon_proc' = [dimon_proc EXCEPT ![scan_dir][nEcho].state =
                          pipe_read_by_communicate(@)]
    /\ drained' = drained \cup {nEcho}
    /\ UNCHANGED <<echoes, scan_dirs, pc, err, scan_i, locals, me_dir,
                   report, pool, rerun, fetch>>

\* the steps of concatenate_scan itself
DispatchOrchestrator ==
    \/ MkdirMeDir
    \/ RerunExtract
    \/ CheckDivisible
    \/ BuildIndexMapping
    \/ ResolveGeometry
    \/ BuildFileOrdering
    \/ WriteInfileList
    \/ StartDimon
    \/ CommunicateReads
    \/ WaitDimon

DispatchNext ==
    \/ DispatchOrchestrator
    \/ DimonExit
    \/ DimonBlocks

\* the process of echo e ends
DimonExitOf(e) ==
    /\ e \in EchoIds
    /\ DimonExit
    /\ \E d \in Range(scan_dirs) : dimon_proc'[d][e] # dimon_proc[d][e]

\* the interpreter goes on running concatenate_scan, and every process
\* that is started ends, provided it is not left blocked on its pipe
\* for ever
DispatchFairness ==
    /\ WF_vars(DispatchOrchestrator)
    /\ \A e \in UNION {0 .. (n - 1) : n \in EchoCounts} :
           SF_vars(DimonExitOf(e))

DispatchSpec == DispatchInit /\ [][DispatchNext]_vars /\ DispatchFairness

\* ================================================= the fetch from XNAT
\* get_data of get_xnat_data.py: the selection lists are built from the
\* arguments, a connection is established, and pull_data filters the
\* project's subjects and decides for each resource of their scans whether
\* it is fetched.  A string argument that splits at commas is followed as
\* the sequence of its stripped pieces, a file as the sequence of its
\* stripped lines; "" is a piece or a line with nothing in it.

MaxSubjects == 2                   \* most subjects the project holds
LoginRetries == 5                  \* attempts < 5 (line 715)

\* an argument left at None, and one that was given
None == <<>>
Some(x) == <<x>>
Value(o) == o[1]

\* the subjects of the project: XNAT id and label
SubjectId(n) == <<"XNAT_S1", "XNAT_S2", "XNAT_S3">>[n]
SubjectLabel(n) == <<"sub01", "sub02", "sub03">>[n]
ProjectSubjects == 1 .. MaxSubjects
\* scan.resources(): every scan holds a resource of each label
ResourceLabels == {"DICOM", "SNAPSHOTS"}

\* what --sub-list, --include-list, --exclude-list can hold
SubListArgs == {None, Some(<<"">>), Some(<<"sub01">>),
                Some(<<"XNAT_S2", "", "nobody">>)}
SubFileArgs == {None, Some(<<"sub02", "">>)}
IncludeListArgs == {None, Some(<<"">>), Some(<<"DICOM">>), Some(<<"*">>)}
IncludeFileArgs == {None, Some(<<"SNAP*">>)}
ExcludeListArgs == {None, Some(<<"SNAPSHOTS">>)}
ExcludeFileArgs == {None, Some(<<"DICOM">>)}
\* the password argument of establish_xnat_interface (get_data passes none)
Passwords == {None, Some("secret")}

\* [el.strip() for el in cslist.split(',') if len(el.strip()) > 0]
parse_comma_separated_list(cslist) ==
    SelectSeq(cslist, LAMBDA el : el # "")

\* load_list(fname) of a file that is there: its lines, the empty ones
\* dropped
load_list(fname) ==
    IF fname = None THEN <<>>
    ELSE SelectSeq(Value(fname), LAMBDA el : el # "")

\* load_list(exclude_list), line 637: the argument is None or a parsed
\* list, open() of a list raises TypeError, and the bare except returns alt
load_list_of_a_list(parsed) == <<>>

get_subject_selection_list(sl, sub_file) ==
    (IF sl # None THEN parse_comma_separated_list(Value(sl)) ELSE <<>>)
        \o (IF sub_file # None THEN load_list(sub_file) ELSE <<>>)

get_series_selection_lists(include_file, include_list, exclude_file, exclude_list) ==
    LET included == include_file # None \/ include_list # None
        ex_file == IF included THEN None ELSE exclude_file
        ex_list == IF included THEN None ELSE exclude_list
        in_parsed == IF include_list # None
                     THEN parse_comma_separated_list(Value(include_list))
                     ELSE <<>>
        ex_parsed == IF ex_list # None
                     THEN parse_comma_separated_list(Value(ex_list))
                     ELSE <<>>
    IN  [series_keep_list |->
             (IF include_file # None THEN load_list(include_file) ELSE <<>>)
                 \o in_parsed,
         series_skip_list |->
             (IF ex_file # None THEN load_list_of_a_list(ex_parsed) ELSE <<>>)
                 \o ex_parsed]

\* fnmatch.fnmatch(name, pattern) for the patterns of the argument sets
fnmatch(name, pattern) ==
    \/ pattern = name
    \/ pattern = "*"
    \/ pattern = "SNAP*" /\ name = "SNAPSHOTS"

\* is_keeper(descr, series_keep_list, series_skip_list); a list that is
\* there, empty or not, is not None
is_keeper(descr, keep, skip) ==
    IF keep # None
    THEN \E k \in DOMAIN Value(keep) : fnmatch(descr, Value(keep)[k])
    ELSE IF skip # None
         THEN ~ \E k \in DOMAIN Value(skip) : fnmatch(descr, Value(skip)[k])
         ELSE FALSE

\* [s for s in subjects if label(s) in sub_list or s in sub_list]
selected_by_list(list) ==
    {n \in ProjectSubjects :
        SubjectLabel(n) \in Range(list) \/ SubjectId(n) \in Range(list)}

\* match_subject_dates: the subjects with an experiment dated in the range
match_subject_dates(subs) == subs \cap project

RECURSIVE sorted_ids(_)
sorted_ids(subs) ==
    IF subs = {} THEN <<>>
    ELSE LET n == CHOOSE m \in subs : \A o \in subs : m <= o
         IN  <<SubjectId(n)>> \o sorted_ids(subs \ {n})

FetchInit ==
    /\ echoes = 2
    /\ scan_dirs = <<>>
    /\ pc = "get_data"
    /\ err = ""
    /\ scan_i = 1
    /\ dir = NoDir
    /\ dicom_list = <<>>
    /\ index_list = <<>>
    /\ NothingDerived
    /\ NothingOnDisk
    /\ NothingReported
    /\ NoPool
    /\ NoRerun
    /\ NoPipes
    /\ params \in [sub_list : SubListArgs, sub_file : SubFileArgs,
                   include_list : IncludeListArgs,
                   include_file : IncludeFileArgs,
                   exclude_list : ExcludeListArgs,
                   exclude_file : ExcludeFileArgs,
                   password : Passwords]
    /\ project \in SUBSET ProjectSubjects
    /\ sub_list = <<>>
    /\ series_keep_list = <<>>
    /\ series_skip_list = <<>>
    /\ attempts = 0
    /\ logins = 0
    /\ xnat = ""
    /\ subjects = <<>>
    /\ sub_i = 0
    /\ fetched = {}

FetchIdle ==
    UNCHANGED <<echoes, scan_dirs, scan_i, dir, dicom_list, index_list,
                derived, disk, report, pool, rerun, pipes, params, project>>

\* get_data, lines 745-751: the selection lists
BuildSelectionLists ==
    /\ pc = "get_data"
    /\ sub_list' = get_subject_selection_list(params.sub_list,
                                              params.sub_file)
    /\ LET lists == get_series_selection_lists(
                        params.include_file, params.include_list,
                        params.exclude_file, params.exclude_list)
       IN  /\ series_keep_list' = lists.series_keep_list
           /\ series_skip_list' = lists.series_skip_list
    /\ pc' = "login"
    /\ FetchIdle
    /\ UNCHANGED <<err, attempts, logins, xnat, subjects, sub_i, fetched>>

\* establish_xnat_interface, one turn of its loop: a login is asked of the
\* server with the password passed or the one typed at the prompt, and the
\* project list comes back empty (the login failed) or not
LoginAttempt ==
    /\ pc = "login"
    /\ logins' = logins + 1
    /\ \E failed \in BOOLEAN :
           IF params.password # None /\ failed
           THEN xnat' = "None" /\ pc' = "pull_data" /\ attempts' = attempts
           ELSE IF failed /\ attempts < LoginRetries
           THEN xnat' = xnat /\ pc' = pc /\ attempts' = attempts + 1
           ELSE IF failed /\ attempts >= LoginRetries
           THEN xnat' = "None" /\ pc' = "pull_data" /\ attempts' = attempts
           ELSE xnat' = "Interface" /\ pc' = "pull_data"
                /\ attempts' = attempts
    /\ FetchIdle
    /\ UNCHANGED <<err, sub_list, series_keep_list, series_skip_list,
                   subjects, sub_i, fetched>>

\* pull_data, lines 283-294: xnat.select of None raises, else the subjects
\* of the project are filtered by the selection list and by date
FilterSubjects ==
    /\ pc = "pull_data"
    /\ IF xnat = "None"
       THEN /\ Raise("AttributeError")
            /\ UNCHANGED <<subjects, sub_i>>
       ELSE /\ subjects' =
                  sorted_ids(match_subject_dates(selected_by_list(sub_list)))
            /\ sub_i' = 1
            /\ pc' = "subjects"
            /\ err' = err
    /\ FetchIdle
    /\ UNCHANGED <<sub_list, series_keep_list, series_skip_list, attempts,
                   logins, xnat, fetched>>

\* pull_data, lines 314-389: the resources of the scans of one subject,
\* each fetched or skipped
PullSubject ==
    /\ pc = "subjects"
    /\ sub_i <= Len(subjects)
    /\ fetched' = fetched \cup
           {<<subjects[sub_i], label>> : label \in
               {l \in ResourceLabels :
                   is_keeper(l, Some(series_keep_list),
                             Some(series_skip_list))}}
    /\ sub_i' = sub_i + 1
    /\ FetchIdle
    /\ UNCHANGED <<pc, err, sub_list, series_keep_list, series_skip_list,
                   attempts, logins, xnat, subjects>>

\* pull_data returns the subject directories
PullDataReturns ==
    /\ pc = "subjects"
    /\ sub_i > Len(subjects)
    /\ pc' = "pulled"
    /\ FetchIdle
    /\ UNCHANGED <<err, sub_list, series_keep_list, series_skip_list,
                   attempts, logins, xnat, subjects, sub_i, fetched>>

FetchNext ==
    \/ BuildSelectionLists
    \/ LoginAttempt
    \/ FilterSubjects
    \/ PullSubject
    \/ PullDataReturns

FetchSpec == FetchInit /\ [][FetchNext]_vars

\* ======================================================= properties
\* what the directory in progress holds, read from dir and not from the
\* values concatenate_scan derives
FileNumbers == DOMAIN dir.hdr
TotalFiles == Len(dir.hdr)
DistinctIndices == Range(dir.hdr)
DistinctIndexCount == Cardinality(DistinctIndices)
Repeats(i) == Cardinality({n \in FileNumbers : dir.hdr[n] = i})
DeclaredFileCount == dir.slice_num * dir.vol_num
OrderingBuilt == pc \in {"write", "start", "wait"}
ManifestsWritten == pc \in {"start", "wait"}
Started == {e \in EchoIds : dimon_proc[scan_dir][e].state # "none"}

\* C1: no reconstructor process is ever started for a scan whose declared
\* slice count x declared volume count differs from its number of DICOM files.
C1_NoDimonForIncompleteScan ==
    (dir # NoDir /\ DeclaredFileCount # TotalFiles) => Started = {}

\* C2: a checked scan is in the list of incomplete scans exactly when its
\* declared slice count x declared volume count differs from its file count.
C2_FlaggedExactlyWhenCountsDiffer ==
    \A p \in DOMAIN checked :
        (checked[p] \in Range(incomplete))
            <=> (checked[p].slice_num * checked[p].vol_num # checked[p].files)

\* C3: when the number of distinct slice indices is not divisible by the echo
\* count, no file ordering is built.
C3_NoOrderingFromTruncatedIndices ==
    (dir # NoDir /\ DistinctIndexCount % echoes # 0) => ~OrderingBuilt

\* C4: a file ordering is built only when every slice index maps to exactly
\* timepointCount files (here with the distinct indices divisible by echoes).
C4_EveryIndexHasTimepointCountFiles ==
    (OrderingBuilt /\ DistinctIndexCount % echoes = 0)
        => \A i \in DistinctIndices : Repeats(i) = nTimePoints

\* C5: when the number of DICOM files is not divisible by the echo count,
\* concatenate_scan raises IndexError at the check: no mapping, no geometry
\* and no manifest exists afterwards.
C5_IndivisibleTotalRaisesFirst ==
    (index_list # <<>> /\ Len(index_list) % echoes # 0 /\ pc # "check")
        => /\ pc = "raised"
           /\ err = "IndexError"
           /\ index_mapping = <<>>
           /\ nTotalSlices = 0 /\ nSpatialSlices = 0 /\ nTimePoints = 0
           /\ slice_indices_by_echo = <<>>
           /\ concat_file_list = <<>>
           /\ me_dir[scan_dir].infile_lists = {}
           /\ \A e \in EchoIds : infile[e] = <<>>

C5_Witness ==
    /\ pc = "raised"
    /\ err = "IndexError"
    /\ index_list # <<>>
    /\ Len(index_list) % echoes # 0

\* a valid multi-echo index set: distinct indices and files divisible by the
\* echo count, every index repeated equally often
ValidIndexSet ==
    /\ dir # NoDir
    /\ DistinctIndexCount % echoes = 0
    /\ TotalFiles % echoes = 0
    /\ \A i, j \in DistinctIndices : Repeats(i) = Repeats(j)

GeometryResolved == pc \in {"order", "write", "start", "wait"}

\* C6: for a valid multi-echo index set the derived geometry satisfies
\* spatialSliceCount x echoCount = distinctIndexCount and
\* timepointCount x spatialSliceCount x echoCount = totalSlices.
C6_GeometryOfValidIndexSet ==
    (GeometryResolved /\ ValidIndexSet)
        => /\ nTotalSlices = TotalFiles
           /\ nSpatialSlices * echoes = DistinctIndexCount
           /\ nTimePoints * nSpatialSlices * echoes = TotalFiles

C6_Witness ==
    /\ GeometryResolved
    /\ ValidIndexSet
    /\ nTimePoints >= 2
    /\ nSpatialSlices >= 2

\* C7: the blocks of slice_indices_by_echo, in echo order, are the sorted
\* distinct slice indices cut into echoes contiguous ascending blocks of
\* nSpatialSlices indices each: pairwise disjoint, and together every distinct
\* index.
C7_BlocksPartitionSortedIndices ==
    GeometryResolved =>
        /\ DOMAIN slice_indices_by_echo = EchoIds
        /\ \A e \in EchoIds :
            /\ Len(slice_indices_by_echo[e]) = nSpatialSlices
            /\ \A x \in 1 .. (nSpatialSlices - 1) :
                  slice_indices_by_echo[e][x] < slice_indices_by_echo[e][x + 1]
        /\ \A e \in EchoIds \ {0} :
              slice_indices_by_echo[e - 1][nSpatialSlices]
                  < slice_indices_by_echo[e][1]
        /\ \A e, f \in EchoIds :
              e # f => Range(slice_indices_by_echo[e])
                           \cap Range(slice_indices_by_echo[f]) = {}
        /\ UNION {Range(slice_indices_by_echo[e]) : e \in EchoIds}
              = DistinctIndices

\* C8: for every echo e, timepoint t and spatial position x of the derived
\* geometry, concat_file_list[e][t][x] is index_mapping[block_e[x]][t].
C8_OrderingLooksUpBlockAndTimepoint ==
    OrderingBuilt =>
        /\ DOMAIN concat_file_list = EchoIds
        /\ \A e \in EchoIds :
            /\ Len(concat_file_list[e]) = nTimePoints
            /\ \A t \in 1 .. nTimePoints :
                /\ Len(concat_file_list[e][t]) = nSpatialSlices
                /\ \A x \in 1 .. nSpatialSlices :
                      concat_file_list[e][t][x]
                          = index_mapping[slice_indices_by_echo[e][x]][t]

C8_Witness ==
    /\ OrderingBuilt
    /\ nTimePoints >= 2
    /\ nSpatialSlices >= 2

\* text.split(sep): the pieces between separators (at least one piece)
RECURSIVE SplitFrom(_, _, _, _)
SplitFrom(sep, text, k, piece) ==
    IF k > Len(text) THEN <<piece>>
    ELSE IF text[k] = sep THEN <<piece>> \o SplitFrom(sep, text, k + 1, <<>>)
    ELSE SplitFrom(sep, text, k + 1, Append(piece, text[k]))

split(sep, text) == SplitFrom(sep, text, 1, <<>>)

\* the cells of the manifests on disk, read back from their text:
\* <<echo, line, column, text of the cell>>
ManifestLines(e) == split(Newline, infile[e])
ManifestRows(e) ==
    LET lines == ManifestLines(e)
    IN [t \in DOMAIN lines |-> split(Space, lines[t])]
ManifestCells ==
    UNION {LET rows == ManifestRows(e)
           IN UNION {{<<e, t, x, rows[t][x]>> : x \in DOMAIN rows[t]}
                     : t \in DOMAIN rows}
           : e \in EchoIds}

\* the coordinates of file number n by the acquisition: its index is the
\* IndexRank-th distinct index, that index the t-th time
IndexRank(i) == Cardinality({j \in DistinctIndices : j < i})
AcquiredCoordinates(n) ==
    <<IndexRank(dir.hdr[n]) \div (DistinctIndexCount \div echoes),
      Cardinality({m \in FileNumbers : m <= n /\ dir.hdr[m] = dir.hdr[n]}),
      (IndexRank(dir.hdr[n]) % (DistinctIndexCount \div echoes)) + 1>>

\* C9: for a valid index mapping the manifests are a bijection between
\* (echo, timepoint, position) and the files of the scan: every file is in
\* exactly one cell, the cell of its own coordinates, and every cell holds a
\* file of the scan.
C9_ManifestsAreBijection ==
    (ManifestsWritten /\ ValidIndexSet) =>
        LET cells == ManifestCells
        IN /\ \A n \in FileNumbers :
                 {c \in cells : c[4] = <<Word(Path(scan_dir, n))>>}
                     = {AcquiredCoordinates(n) \o <<<<Word(Path(scan_dir, n))>>>>}
           /\ \A c \in cells :
                 \E n \in FileNumbers : c[4] = <<Word(Path(scan_dir, n))>>
           /\ Cardinality(cells) = TotalFiles

C9_Witness ==
    /\ ManifestsWritten
    /\ ValidIndexSet
    /\ nTimePoints >= 2
    /\ nSpatialSlices >= 2
    /\ dir.listing[1] # 1

\* C10: one manifest per echo; it has nTimePoints lines, and line t holds
\* nSpatialSlices space-separated paths, the files of timepoint t in ascending
\* spatial position.
C10_ManifestRowsAreTimepoints ==
    ManifestsWritten =>
        /\ me_dir[scan_dir].infile_lists = EchoIds
        /\ \A e \in EchoIds :
            LET rows == ManifestRows(e)
            IN /\ Len(rows) = nTimePoints
               /\ \A t \in 1 .. nTimePoints :
                    /\ Len(rows[t]) = nSpatialSlices
                    /\ \A x \in 1 .. nSpatialSlices :
                         /\ rows[t][x] = <<Word(concat_file_list[e][t][x])>>
                         /\ dir.hdr[rows[t][x][1].p.num]
                               = slice_indices_by_echo[e][x]
                    /\ \A x \in 1 .. (nSpatialSlices - 1) :
                         dir.hdr[rows[t][x][1].p.num]
                             < dir.hdr[rows[t][x + 1][1].p.num]

C10_Witness ==
    /\ ManifestsWritten
    /\ echoes = 3
    /\ nSpatialSlices = 2
    /\ nTimePoints = 1
    /\ me_dir[scan_dir].infile_lists = {0, 1, 2}

\* ----------------------------------------------- status of a scan
\* make_complete has run for at least one scan; the last one it ran for
StatusEvaluated ==
    /\ scan_i > 1
    /\ \/ pc \in {"complete", "done"}
       \/ pc = "raised" /\ err = "NameError"
evaluated_scan == scan_dirs[scan_i - 1]
\* what make_complete reported: 'FATAL: Scan(s) ... failed to concatenate',
\* 'WARNING: Scan(s) ... incomplete'
FlaggedFailed == err = "" /\ missed # <<>>
FlaggedIncomplete == incomplete # <<>>
ExitedNonZero(d) == {e \in EchoIds : dimon_proc[d][e].state = "exit1"}
MissingOutputs(d) == EchoIds \ me_dir[d].nii

\* C11: once a scan's final status has been evaluated, if one of its echoes'
\* Dimon processes exited non-zero the scan is reported as failed, and the
\* nifti of every echo that exited zero is in its medata directory.
C11_FailedEchoGivesFailedStatus ==
    StatusEvaluated =>
        /\ ExitedNonZero(evaluated_scan) # {} => FlaggedFailed
        /\ \A e \in EchoIds :
               dimon_proc[evaluated_scan][e].state = "exit0"
                   => e \in me_dir[evaluated_scan].nii

\* C12: the check make_complete runs after the conversion looks for the
\* nifti of every echo of the scan, under the name Dimon was given for it,
\* and a scan that misses one and is not reported incomplete is reported
\* as failed.
C12_CheckExaminesEveryEchoOutput ==
    StatusEvaluated =>
        /\ examined = {output_filename(evaluated_scan, e) : e \in EchoIds}
        /\ (MissingOutputs(evaluated_scan) # {} /\ ~FlaggedIncomplete)
               => FlaggedFailed

\* ------------------------------------------------- errors in a scan
\* the exceptions concatenate_scan raises on a scan whose geometry does not
\* resolve (lines 391, 414, 427)
GeometryErrors == {"IndexError", "ZeroDivisionError"}
GeometryErrorRaised == pc = "raised" /\ err \in GeometryErrors
RunEnded == pc \in {"done", "raised"}

\* C13: when the run has ended, every scan of the batch has been processed:
\* an error raised in one scan did not keep the others from being entered.
C13_EveryScanOfBatchProcessed ==
    RunEnded => \A p \in DOMAIN scan_dirs : me_dir[scan_dirs[p]].exists

\* C14: a scan whose declared slice count x volume count differs from its
\* number of DICOM files never ends in a geometry error, whether or not its
\* file count is divisible by the echo count.
C14_MismatchNeverRaisesGeometryError ==
    (dir # NoDir /\ DeclaredFileCount # TotalFiles) => ~GeometryErrorRaised

\* C15: a scan aborted by a geometry error has created nothing: no medata
\* directory, no manifest, no temp directory and no nifti.
C15_GeometryErrorCreatesNothing ==
    GeometryErrorRaised => me_dir[scan_dir] = NoMeDir

\* ------------------------------------------ the processes of a scan
AllScans == Range(scan_dirs)
\* the status checks of the second loop have begun
StatusCheckBegun ==
    \/ pc \in {"complete", "done"}
    \/ pc = "raised" /\ err = "NameError"
\* concatenate_scan is in its start or wait loop for scan d
InDispatch(d) == pc \in {"start", "wait"} /\ scan_dirs[scan_i] = d
Running(d) == {e \in EchoIds : dimon_proc[d][e].state = "running"}
Exited(d) == {e \in EchoIds : dimon_proc[d][e].state \in {"exit0", "exit1"}}

\* C16: once the status checks have begun, no Dimon process of any scan is
\* still running.
C16_NoStatusWhileDimonRuns ==
    StatusCheckBegun => \A d \in AllScans : Running(d) = {}

C16_Witness ==
    /\ StatusEvaluated
    /\ ExitedNonZero(evaluated_scan) # {}

\* C17: whatever the exit codes, the wait loop begins with a process started
\* for every echo, and once a scan is out of its start and wait loops every
\* process started for it has ended and been waited for (its temp directory
\* removed after the wait).
C17_EveryEchoStartedAndAwaited ==
    /\ pc = "wait" => \A e \in EchoIds : dimon_proc[scan_dir][e].state # "none"
    /\ \A d \in AllScans : ~InDispatch(d) =>
           \A e \in EchoIds :
               /\ dimon_proc[d][e].state # "running"
               /\ dimon_proc[d][e].state # "none"
                      => dimon_proc[d][e].cwd \notin me_dir[d].temp

C17_Witness ==
    \E d \in AllScans :
        /\ ~InDispatch(d)
        /\ Exited(d) = EchoIds
        /\ echoes >= 2
        /\ dimon_proc[d][0].state = "exit1"
        /\ dimon_proc[d][1].state = "exit0"

\* C18: the start loop starts one process per echo, each with a working
\* directory of its own, and the working directory of a process that is
\* still running exists.
C18_OwnTempDirWhileRunning ==
    /\ pc = "wait" =>
           Cardinality({dimon_proc[scan_dir][e].cwd : e \in EchoIds}) = echoes
    /\ \A d \in AllScans :
           /\ \A e \in EchoIds, f \in EchoIds :
                  (e # f /\ dimon_proc[d][e].state # "none"
                         /\ dimon_proc[d][f].state # "none")
                      => dimon_proc[d][e].cwd # dimon_proc[d][f].cwd
           /\ \A e \in Running(d) : dimon_proc[d][e].cwd \in me_dir[d].temp

\* the temp directory of echo 0 has been removed while a later echo runs
C18_Witness ==
    /\ pc = "wait"
    /\ nEcho >= 1
    /\ Running(scan_dir) # {}
    /\ dimon_proc[scan_dir][0].cwd \notin me_dir[scan_dir].temp

\* C19: every step of the start loop finds the manifest of every echo
\* written in full, and no step of the start and wait loops writes or
\* changes a manifest.
C19_ManifestsWrittenBeforeDimon ==
    [][/\ pc = "start" =>
              /\ me_dir[scan_dir].infile_lists = EchoIds
              /\ \A e \in EchoIds : infile[e] = concat_files[e]
       /\ (pc \in {"start", "wait"} /\ pc' \in {"start", "wait"}) =>
              /\ infile' = infile
              /\ me_dir'[scan_dir].infile_lists = me_dir[scan_dir].infile_lists
      ]_vars

\* the first process has been started and the start loop goes on
C19_Witness ==
    /\ pc = "start"
    /\ nEcho >= 1
    /\ infile[echoes - 1] # <<>>

\* the stages of concatenate_scan, in the order of its code
StageOrder ==
    <<"scans", "mkdir", "extract", "check", "map", "geometry", "order",
      "write", "start", "wait">>
StageOf(p) == CHOOSE k \in DOMAIN StageOrder : StageOrder[k] = p
IsStage(p) == \E k \in DOMAIN StageOrder : StageOrder[k] = p

C21_IndexIsOwnHeaderValue ==
    pc = "pooled" =>
        /\ DOMAIN index_list = DOMAIN dicom_list
        /\ \A k \in DOMAIN dicom_list :
               index_list[k] = dir.hdr[dicom_list[k].num]

\* the workers returned in another order than that of the tasks, for files
\* that do not all carry the same slice index
C21_Witness ==
    /\ pc = "pooled"
    /\ \E k \in DOMAIN pool_done : pool_done[k] # k
    /\ \E k \in DOMAIN index_list : index_list[k] # index_list[1]

\* ------------------------------------------------- unusable headers
HeaderErrors == {"AttributeError", "InvalidDicomError"}
UnusableHeaders == {n \in DOMAIN dir.hdr : dir.hdr[n] <= 0}

\* C22: when the header of one file of the scan directory cannot be read or
\* has no slice index field, the scan ends in that error with no index list
\* and no index mapping: no geometry is derived, no manifest written and no
\* Dimon process started for it.
C22_UnusableHeaderFailsExtraction ==
    (dir # NoDir /\ UnusableHeaders # {}) =>
        /\ pc = "raised"
        /\ err \in HeaderErrors
        /\ index_list = <<>>
        /\ index_mapping = <<>>
        /\ nSpatialSlices = 0
        /\ me_dir[scan_dir].infile_lists = {}
        /\ \A e \in EchoIds : dimon_proc[scan_dir][e].state = "none"

\* the file without the field is the last of a directory whose file count
\* the echo count divides
C22_Witness ==
    /\ err = "AttributeError"
    /\ TotalFiles >= 2 * echoes
    /\ TotalFiles % echoes = 0
    /\ dir.hdr[TotalFiles] = 0

\* --------------------------------------------------- status markers
\* the marker files of make_complete's docstring: '.complete', '.failed',
\* and one '.incomplete_run<NN>' per run
Marker(name, n) == [name |-> name, run |-> n]

\* C23: once make_complete has run for a scan, its medata directory holds
\* '.complete' when every echo's nifti is there, and otherwise '.failed'
\* together with one marker for every echo whose nifti is missing.
C23_MarkersEncodeOutcome ==
    StatusEvaluated =>
        IF MissingOutputs(evaluated_scan) = {}
        THEN Marker(".complete", 0) \in me_dir[evaluated_scan].markers
        ELSE /\ Marker(".failed", 0) \in me_dir[evaluated_scan].markers
             /\ \A e \in MissingOutputs(evaluated_scan) :
                    Marker(".incomplete_run", e)
                        \in me_dir[evaluated_scan].markers

\* ------------------------------------------------------ echo counts
\* the echo counts call_mdir has a script for (lines 290-296)
SupportedEchoCounts == {2, 3}

\* C25: with an echo count other than 2 or 3 no geometry is ever derived and
\* no Dimon process is ever started.
C25_OtherEchoCountsRejected ==
    echoes \notin SupportedEchoCounts =>
        /\ ~GeometryResolved
        /\ nSpatialSlices = 0
        /\ \A d \in AllScans, e \in EchoIds : dimon_proc[d][e].state = "none"

\* ------------------------------------------- order within an index
FilesWithIndex(i) == {n \in FileNumbers : dir.hdr[n] = i}

\* C28: index_mapping[i] holds exactly the files whose header carries slice
\* index i, and its t-th entry is the file with the t-th lowest file number
\* among them, in whatever order glob listed the directory.
C28_FilesOfIndexAscendByNumber ==
    index_mapping # <<>> =>
        \A i \in DOMAIN index_mapping :
            /\ Len(index_mapping[i]) = Cardinality(FilesWithIndex(i))
            /\ \A t \in DOMAIN index_mapping[i] :
                   /\ index_mapping[i][t].num \in FilesWithIndex(i)
                   /\ Cardinality({n \in FilesWithIndex(i) :
                                      n <= index_mapping[i][t].num}) = t

\* glob listed the highest file number first, and some index has several files
C28_Witness ==
    /\ index_mapping # <<>>
    /\ Len(dicom_list) >= 2
    /\ dicom_list[1].num > dicom_list[2].num
    /\ \E i \in DOMAIN index_mapping : Len(index_mapping[i]) >= 2

\* ---------------------------------------------- manifests, run twice
\* C24: the manifests a second run over the same DICOM files leaves are,
\* token for token, those the first run left, and the manifests a run
\* leaves are the texts it built, whatever the medata directory held before.
C24_SecondRunWritesSameManifests ==
    pc = "start" =>
        /\ \A e \in EchoIds : infile[e] = concat_files[e]
        /\ run = 2 => infile = first_written

\* the second run is through, over a medata directory that held stale
\* manifests before the first, for a scan with several timepoints
C24_Witness ==
    /\ pc = "start"
    /\ run = 2
    /\ me_dir[scan_dir].nii = EchoIds
    /\ nTimePoints >= 2
    /\ infile[0] # StaleText

\* ------------------------------------------------ the fetch from XNAT
\* pull_data has filtered the subjects of the project
SubjectsFiltered == pc \in {"subjects", "pulled"}
NoSeriesSelectionGiven ==
    /\ params.include_list = None
    /\ params.include_file = None
    /\ params.exclude_list = None
    /\ params.exclude_file = None
NoSubjectSelectionGiven ==
    /\ params.sub_list = None
    /\ params.sub_file = None

\* C26: when neither an include list or file nor an exclude list or file
\* is given, pull_data has fetched, when it returns, every resource of
\* every scan of the subjects it selected
C26_NothingGivenFetchesEveryResource ==
    (NoSeriesSelectionGiven /\ pc = "pulled") =>
        fetched = {<<s, l>> : s \in Range(subjects), l \in ResourceLabels}

\* C27: when --sub-list and --sub-file are both omitted every subject of
\* the project within the date range is selected, and a subject within
\* the range is left out only when a selection list that is not empty was
\* given and names neither its label nor its id
C27_NoSubjectListSelectsAll ==
    SubjectsFiltered =>
        /\ NoSubjectSelectionGiven =>
               Range(subjects) = {SubjectId(n) : n \in project}
        /\ \A n \in project :
               SubjectId(n) \notin Range(subjects) =>
                   /\ sub_list # <<>>
                   /\ n \notin selected_by_list(sub_list)

\* C29: with no password passed establish_xnat_interface asks at most 5
\* logins of the server and returns None after the 5th failure in a row;
\* with a password passed it has asked exactly one when it returns
C29_LoginAttemptsBounded ==
    /\ params.password = None =>
           /\ logins <= LoginRetries
           /\ xnat = "None" => logins = LoginRetries
    /\ (params.password # None /\ xnat # "") => logins = 1

\* -------------------------------------------- the pipes of the dispatch
\* concatenate_scan has returned from the scan and left no temp directory
FinishedWithoutTempDirs ==
    /\ pc = "scans"
    /\ scan_i > Len(scan_dirs)
    /\ \A d \in AllScans : me_dir[d].temp = {}

\* C30: if every process that is started ends (one blocked on its stdout
\* pipe once the pipe is read), then from the start of the dispatch
\* concatenate_scan comes to the end of its waits, and every temp directory
\* has been removed by then, whatever the order and the exit codes in which
\* the processes end
C30_DispatchEndsWithTempDirsRemoved ==
    (pc = "start") ~> FinishedWithoutTempDirs

\* the scan is finished, a later echo having ended before an earlier one
\* with a non-zero exit code, and a pipe having been read full
C30_Witness ==
    /\ FinishedWithoutTempDirs
    /\ echoes >= 2
    /\ drained # {}
    /\ \E d \in AllScans : ExitedNonZero(d) # {} /\ ExitedNonZero(d) # EchoIds
====
